---- MODULE Spec2Model ----
(***************************************************************************)
(* Model of foto_organization_tool.py: destination-path resolution, the    *)
(* image and other-file move pipelines, duplicate reconciliation, the      *)
(* extension classifier, the pruning of empty folders and main run twice.  *)
(* Strings are sequences of one-character strings,                         *)
(* so that lower(), split(), substring tests and the regular expression    *)
(* are computed as Python computes them.  The file system is a function    *)
(* from the paths of regular files to their content, plus a set of         *)
(* directory paths.                                                        *)
(***************************************************************************)
EXTENDS Integers, Sequences, FiniteSets, TLC

VARIABLES
    fs,             \* regular files: path -> [id, size]
    dirs,           \* directories that exist
    pc,             \* position of the running function
    call,           \* arguments of the function under check
    ret,            \* its return value
    config,         \* the loaded configuration
    all_files,      \* main: the files found in the source folder
    imgs,           \* the image list
    others,         \* the other-file list
    cursor,         \* 1-based position of the running for loop
    image_bound,    \* whether the local name `image` has been assigned
    success_list,   \* extract_exif_...: destinations of moved images
    copy_list,      \* extract_exif_...: destinations containing "Kopie"
    problem_list,   \* extract_exif_...: images whose move raised
    success_files,  \* move_other_files: moved files
    problem_files,  \* move_other_files / delete_copy_...: problems
    fs0,            \* history: the file system when the run started
    log,            \* history: one record per shutil.move attempted
    quene,          \* delete_copy_...: the files with "Kopie" in their path
    deleted_files,  \* delete_copy_...: the files marked for deletion
    del_files,      \* delete_copy_...: the marked files not yet seen gone
    counter,        \* delete_copy_...: passes of the deletion loop
    removed,        \* history: the paths os.remove has removed
    run,            \* main: which run of the program this is (0: none running)
    dirs0,          \* history: the directories when the run started
    pass,           \* delete_empty_folders: the loop variable i
    walk,           \* delete_empty_folders: directories os.walk has yet to yield
    scan,           \* delete_empty_folders: what os.walk listed in this pass
    presumed        \* delete_copy_...: the org_file derived from a marked file

vars == <<fs, dirs, pc, call, ret, config, all_files, imgs, others, cursor,
          image_bound, success_list, copy_list, problem_list, success_files,
          problem_files, fs0, log, quene, deleted_files, del_files, counter,
          removed, run, dirs0, pass, walk, scan, presumed>>

delVars == <<quene, deleted_files, del_files, counter, removed>>
callVars == <<call, ret>>
tailVars == <<run, dirs0, pass, walk, scan, presumed>>
pipeVars == <<config, all_files, imgs, others, cursor, image_bound, success_list,
              copy_list, problem_list, success_files, problem_files, fs0, log>>

-----------------------------------------------------------------------------
(* Bounds *)

\* highest copy index that may pre-exist in a generated destination tree
MaxIdx == 3

\* most files the source folder holds in a run of the pipeline
MaxFiles == 3

\* longest list handed to the classifier
MaxList == 2

\* deletion passes during which the file system may still show a removed file
MaxPasses == 12

-----------------------------------------------------------------------------
(* Strings *)

UpperChars == <<"A","B","C","D","E","F","G","H","I","J","K","L","M",
                "N","O","P","Q","R","S","T","U","V","W","X","Y","Z">>
LowerChars == <<"a","b","c","d","e","f","g","h","i","j","k","l","m",
                "n","o","p","q","r","s","t","u","v","w","x","y","z">>
DigitChars == <<"0","1","2","3","4","5","6","7","8","9">>

\* str.lower() of one character
lowerChar(c) ==
    IF \E i \in 1..26 : UpperChars[i] = c
    THEN LowerChars[CHOOSE i \in 1..26 : UpperChars[i] = c]
    ELSE c

\* str.lower()
lower(s) == [i \in 1..Len(s) |-> lowerChar(s[i])]

\* str(n) for n >= 0, as the f-string formats the index
RECURSIVE str(_)
str(n) ==
    IF n < 10 THEN <<DigitChars[n + 1]>>
    ELSE str(n \div 10) \o <<DigitChars[(n % 10) + 1]>>

\* s[a:b] of Python with 0 <= a, b <= len(s)
slice(s, a, b) == SubSeq(s, a + 1, b)

\* s.startswith(t, at) with a 0-based offset
startsAt(s, t, at) ==
    /\ at + Len(t) <= Len(s)
    /\ \A i \in 1..Len(t) : s[at + i] = t[i]

\* the 0-based offsets at which t occurs in s
occurrences(s, t) == {at \in 0..Len(s) : startsAt(s, t, at)}

\* "t in s"
contains(s, t) == occurrences(s, t) # {}

Min(S) == CHOOSE x \in S : \A y \in S : x <= y
Max(S) == CHOOSE x \in S : \A y \in S : x >= y

Dot == <<".">>
Sep == <<"/">>
Kopie == <<"K","o","p","i","e">>

\* os.path.join(a, b) for a relative b
join(a, b) ==
    IF a = <<>> THEN b
    ELSE IF a[Len(a)] = "/" THEN a \o b
    ELSE a \o Sep \o b

\* os.path.split(p): (head, tail), tail being what follows the last slash
splitTail(p) ==
    LET cut == occurrences(p, Sep)
    IN  IF cut = {} THEN p ELSE slice(p, Max(cut) + 1, Len(p))

splitHead(p) ==
    LET cut == occurrences(p, Sep)
    IN  IF cut = {} THEN <<>> ELSE slice(p, 0, Max(cut))

-----------------------------------------------------------------------------
(* File system primitives *)

\* os.path.exists(p)
exists(F, D, p) == p \in DOMAIN F \/ p \in D

\* os.path.isfile(p)
isfile(F, p) == p \in DOMAIN F

\* the directories os.makedirs(p) leaves in place: p and every parent of it
makedirs(D, p) ==
    D \cup {p} \cup {slice(p, 0, at) : at \in {c \in occurrences(p, Sep) : c > 0}}

-----------------------------------------------------------------------------
(* create_dst_path_for_file *)

\* the file name built for copy index `index`
copyName(filename, extension, index) ==
    filename \o <<"_">> \o Kopie \o <<"(">> \o str(index) \o <<")">>
             \o Dot \o lower(extension)

\* the while loop: index is incremented first, then the path is probed
RECURSIVE probeLoop(_, _, _, _, _, _)
probeLoop(F, D, base_path, filename, extension, index) ==
    LET next == index + 1
        dst_path == join(base_path, copyName(filename, extension, next))
    IN  IF ~exists(F, D, dst_path) THEN dst_path
        ELSE probeLoop(F, D, base_path, filename, extension, next)

\* a resolver that reuses the unsuffixed name whatever exists there
create_dst_path_clobber(F, D, base_path, filename, extension) ==
    join(base_path, filename \o Dot \o lower(extension))

\* a resolver that forgets to lower-case the extension
create_dst_path_keepcase(F, D, base_path, filename, extension) ==
    LET dst_path == join(base_path, filename \o Dot \o extension)
    IN  IF exists(F, makedirs(D, base_path), dst_path)
        THEN probeLoop(F, makedirs(D, base_path), base_path, filename, extension, 0)
        ELSE dst_path

\* a resolver whose probe starts at index 2
create_dst_path_skip(F, D, base_path, filename, extension) ==
    LET dst_path == join(base_path, filename \o Dot \o lower(extension))
    IN  IF exists(F, makedirs(D, base_path), dst_path)
        THEN probeLoop(F, makedirs(D, base_path), base_path, filename, extension, 1)
        ELSE dst_path

\* the returned dst_path (the directory side effect is makedirs(D, base_path))
create_dst_path_for_file(F, D, base_path, filename, extension) ==
    LET D1 == makedirs(D, base_path)
        dst_path == join(base_path, filename \o Dot \o lower(extension))
    IN  IF exists(F, D1, dst_path)
        THEN probeLoop(F, D1, base_path, filename, extension, 0)
        ELSE dst_path

-----------------------------------------------------------------------------
(* Resolver specification: one call of create_dst_path_for_file on a       *)
(* generated destination directory.                                        *)

DestRoot == <<"d">>
NoExifDir == join(DestRoot, <<"N","o","_","e","x","i","f","_","d","a","t","a">>)
OtherDir == join(DestRoot, <<"M">>)

ResolveStems == {<<"a">>, <<"b">>}
ResolveExts == {<<"j","p","g">>, <<"J","P","G">>}
ResolveBases == {NoExifDir, OtherDir}

\* the n-th name of the probe sequence, written out
ProbePath(base_path, stem, ext, n) ==
    IF n = 0 THEN base_path \o <<"/">> \o stem \o <<".">> \o lower(ext)
    ELSE base_path \o <<"/">> \o stem \o <<"_","K","o","p","i","e","(">>
                   \o str(n) \o <<")",".">> \o lower(ext)

\* files that may pre-exist: any subset of the first names of one probe sequence
ResolveCandidates ==
    {ProbePath(NoExifDir, <<"a">>, <<"j","p","g">>, n) : n \in 0..MaxIdx}

File(n, sz) == [id |-> n, size |-> sz]

\* the value of the variables a specification does not use
PipeIdle ==
    /\ config = [include_year |-> FALSE]
    /\ all_files = <<>> /\ imgs = <<>> /\ others = <<>>
    /\ cursor = 0 /\ image_bound = FALSE
    /\ success_list = <<>> /\ copy_list = <<>> /\ problem_list = <<>>
    /\ success_files = <<>> /\ problem_files = <<>>
    /\ fs0 = <<>> /\ log = <<>>

CallIdle == call = <<>> /\ ret = <<>>

TailIdle ==
    /\ run = 0 /\ dirs0 = {}
    /\ pass = 0 /\ walk = {} /\ scan = {}
    /\ presumed = <<>>

DelIdle ==
    /\ quene = <<>> /\ deleted_files = <<>> /\ del_files = <<>>
    /\ counter = 0 /\ removed = {}

InitResolve ==
    /\ TailIdle
    /\ \E S \in SUBSET ResolveCandidates : fs = [p \in S |-> File(0, 1)]
    /\ dirs \in {{DestRoot}, {DestRoot, NoExifDir}}
    /\ call \in [base_path : ResolveBases, filename : ResolveStems,
                 extension : ResolveExts]
    /\ pc = "call"
    /\ ret = <<>>
    /\ PipeIdle
    /\ DelIdle

ResolveCall ==
    /\ UNCHANGED tailVars
    /\ pc = "call"
    /\ ret' = create_dst_path_for_file(fs, dirs, call.base_path, call.filename,
                                       call.extension)
    /\ dirs' = makedirs(dirs, call.base_path)
    /\ pc' = "returned"
    /\ UNCHANGED <<fs, call>>
    /\ UNCHANGED pipeVars
    /\ UNCHANGED delVars

NextResolve == ResolveCall

SpecResolve == InitResolve /\ [][NextResolve]_vars

\* C1: the returned path is the first non-existing path of the probe sequence
\* base/stem.ext, base/stem_Kopie(1).ext, base/stem_Kopie(2).ext, ... with the
\* extension lower-cased: it does not exist, every earlier name of the sequence
\* exists, so the unsuffixed name is returned when free and no index is skipped.
C1_FirstFreeProbe ==
    pc = "returned" =>
        \E n \in 0..(MaxIdx + 1) :
            /\ ret = ProbePath(call.base_path, call.filename, call.extension, n)
            /\ ~exists(fs, dirs, ret)
            /\ \A m \in 0..(n - 1) :
                   exists(fs, dirs, ProbePath(call.base_path, call.filename,
                                              call.extension, m))

\* a call with an upper-case extension that had to skip two taken copy names
C1_Witness ==
    /\ pc = "returned"
    /\ call.extension = <<"J","P","G">>
    /\ ret = ProbePath(call.base_path, call.filename, call.extension, 3)
    /\ ProbePath(call.base_path, call.filename, call.extension, 2) \in DOMAIN fs

-----------------------------------------------------------------------------
(* More string functions *)

\* s.split(c) for a one-character separator c: the sequence of parts
RECURSIVE splitOn(_, _)
splitOn(s, c) ==
    LET at == {n \in 1..Len(s) : s[n] = c}
    IN  IF at = {} THEN <<s>>
        ELSE <<SubSeq(s, 1, Min(at) - 1)>>
                 \o splitOn(SubSeq(s, Min(at) + 1, Len(s)), c)

isDigit(c) == \E n \in 1..10 : DigitChars[n] = c
digitVal(c) == (CHOOSE n \in 1..10 : DigitChars[n] = c) - 1

\* int() of a two- or four-digit field
number(s) ==
    IF Len(s) = 2 THEN 10 * digitVal(s[1]) + digitVal(s[2])
    ELSE 1000 * digitVal(s[1]) + 100 * digitVal(s[2])
             + 10 * digitVal(s[3]) + digitVal(s[4])

\* n zero-padded to two digits, as strftime's %m %d %H %M %S
pad2(n) == IF n < 10 THEN <<"0">> \o str(n) ELSE str(n)

\* n zero-padded to four digits, as strftime's %Y
pad4(n) ==
    IF n < 10 THEN <<"0","0","0">> \o str(n)
    ELSE IF n < 100 THEN <<"0","0">> \o str(n)
    ELSE IF n < 1000 THEN <<"0">> \o str(n)
    ELSE str(n)

\* datetime.strptime(s, "%Y:%m:%d %H:%M:%S") on a fixed-width value:
\* [ok |-> FALSE] stands for the ValueError
strptime(s) ==
    LET shaped ==
            /\ Len(s) = 19
            /\ s[5] = ":" /\ s[8] = ":" /\ s[11] = " " /\ s[14] = ":" /\ s[17] = ":"
            /\ \A n \in (1..19) \ {5, 8, 11, 14, 17} : isDigit(s[n])
        t == [year |-> number(SubSeq(s, 1, 4)), month |-> number(SubSeq(s, 6, 7)),
              day |-> number(SubSeq(s, 9, 10)), hour |-> number(SubSeq(s, 12, 13)),
              minute |-> number(SubSeq(s, 15, 16)),
              second |-> number(SubSeq(s, 18, 19))]
    IN  IF shaped /\ t.year >= 1 /\ t.month \in 1..12 /\ t.day \in 1..31
                  /\ t.hour <= 23 /\ t.minute <= 59 /\ t.second <= 61
        THEN [ok |-> TRUE, time |-> t]
        ELSE [ok |-> FALSE]

-----------------------------------------------------------------------------
(* filter_files_with_regex *)

\* the alternatives of the extension group, in the order the regex tries them
RegexExtensions ==
    << <<"J","P","G">>, <<"j","p","g">>, <<"j","p","e","g">>, <<"P","N","G">>,
       <<"p","n","g">>, <<"t","i","f","f">>, <<"t","i","f">>, <<"T","I","F">>,
       <<"B","M","P">>, <<"b","m","p">> >>

\* 0-based offsets of a '.' directly followed by one of the alternatives
regexDots(image) ==
    {at \in occurrences(image, Dot) :
        \E n \in 1..Len(RegexExtensions) : startsAt(image, RegexExtensions[n], at + 1)}

\* the groups of the last match re.finditer yields: the greedy .* runs to the
\* last '.' that an alternative follows, and no match can start after it
regexGroups(image) ==
    LET at == Max(regexDots(image))
        n == Min({m \in 1..Len(RegexExtensions) :
                      startsAt(image, RegexExtensions[m], at + 1)})
    IN  [filename |-> slice(image, 0, at), extension |-> RegexExtensions[n]]

\* whether `file` is appended to imgs: a match with both groups non-empty
isImg(file) ==
    LET image == splitTail(file)
    IN  /\ regexDots(image) # {}
        /\ regexGroups(image).filename # <<>>
        /\ regexGroups(image).extension # <<>>

isOther(file) == ~isImg(file)

\* a loop that appends to others only the names the regex does not match
filter_others_nomatch(files_list) ==
    SelectSeq(files_list, LAMBDA file : regexDots(splitTail(file)) = {})

\* the two returned lists
filter_imgs(files_list) == SelectSeq(files_list, isImg)
filter_others(files_list) == SelectSeq(files_list, isOther)

-----------------------------------------------------------------------------
(* The collaborators: the image library and shutil.move *)

SrcRoot == <<"s">>
NoTag == <<>>

\* what Image.open, _getexif and image.format give for a path of the source
\* folder: opens = FALSE stands for Image.open raising, DateTime = NoTag for a
\* missing EXIF block or tag
SourceFiles ==
    << [path |-> <<"s","/","a",".","j","p","g">>, opens |-> TRUE, DateTime |-> <<"2","0","2","1",":","0","5",":","0","3"," ","1","0",":","1","5",":","0","0">>,
        format |-> <<"J","P","E","G">>],
       [path |-> <<"s","/","b",".","J","P","G">>, opens |-> TRUE, DateTime |-> <<"2","0","2","1",":","0","5",":","0","3"," ","1","0",":","1","5",":","0","0">>,
        format |-> <<"J","P","E","G">>],
       [path |-> <<"s","/","x","/","a",".","j","p","g">>, opens |-> TRUE, DateTime |-> <<"2","0","2","1",":","0","5",":","0","3"," ","1","0",":","1","5",":","0","0">>,
        format |-> <<"J","P","E","G">>],
       [path |-> <<"s","/","c",".","j","p","g">>, opens |-> TRUE, DateTime |-> <<"0","0","0","0",":","0","0",":","0","0"," ","0","0",":","0","0",":","0","0">>,
        format |-> <<"J","P","E","G">>],
       [path |-> <<"s","/","x","/","c",".","j","p","g">>, opens |-> FALSE, DateTime |-> NoTag,
        format |-> NoTag],
       [path |-> <<"s","/","n",".","t","x","t">>, opens |-> FALSE, DateTime |-> NoTag, format |-> NoTag],
       [path |-> <<"s","/","R","E","A","D","M","E">>, opens |-> FALSE, DateTime |-> NoTag, format |-> NoTag] >>

NSource == Len(SourceFiles)

\* a second source folder, of files whose names hold several dots or the
\* marker text: photo.jpg (dated), a.b.jpg and Kopie_a.jpg (no EXIF block),
\* t.tar.gz, document.pdf and Makefile
NamedFiles ==
    << [path |-> <<"s","/","p","h","o","t","o",".","j","p","g">>, opens |-> TRUE,
        DateTime |-> <<"2","0","2","1",":","0","5",":","0","3"," ","1","0",":","1","5",":","0","0">>,
        format |-> <<"J","P","E","G">>],
       [path |-> <<"s","/","a",".","b",".","j","p","g">>, opens |-> TRUE, DateTime |-> NoTag,
        format |-> <<"J","P","E","G">>],
       [path |-> <<"s","/","K","o","p","i","e","_","a",".","j","p","g">>, opens |-> TRUE,
        DateTime |-> NoTag, format |-> <<"J","P","E","G">>],
       [path |-> <<"s","/","t",".","t","a","r",".","g","z">>, opens |-> FALSE, DateTime |-> NoTag,
        format |-> NoTag],
       [path |-> <<"s","/","d","o","c","u","m","e","n","t",".","p","d","f">>, opens |-> FALSE,
        DateTime |-> NoTag, format |-> NoTag],
       [path |-> <<"s","/","M","a","k","e","f","i","l","e">>, opens |-> FALSE, DateTime |-> NoTag,
        format |-> NoTag] >>

\* every file the model knows
Catalogue == SourceFiles \o NamedFiles

sourceId(path) == CHOOSE n \in 1..Len(Catalogue) : Catalogue[n].path = path
imageInfo(path) == Catalogue[sourceId(path)]

MoveOutcomes == {"moved", "failed", "copied"}

\* a move whose failure loses the source file
shutil_move_lossy(F, src, dst, outcome) ==
    [p \in (DOMAIN F \ {src}) \cup (IF outcome = "failed" THEN {} ELSE {dst}) |->
        IF p = dst THEN F[src] ELSE F[p]]

\* shutil.move(src, dst) to a dst that is no directory: "moved" is the rename
\* (or copy and unlink) having succeeded, "failed" an error before anything
\* was written, "copied" an error after the copy to dst and before the source
\* was unlinked.  Every outcome but "moved" raises.
shutil_move(F, src, dst, outcome) ==
    CASE outcome = "moved" ->
            [p \in (DOMAIN F \ {src}) \cup {dst} |-> IF p = dst THEN F[src] ELSE F[p]]
      [] outcome = "copied" ->
            [p \in DOMAIN F \cup {dst} |-> IF p = dst THEN F[src] ELSE F[p]]
      [] OTHER -> F

-----------------------------------------------------------------------------
(* extract_exif_from_image_and_move_to_dest_folder, move_other_files, main *)

\* the try block of one loop iteration: whether it ran to valid_exif = True
validExif(image_path) ==
    /\ imageInfo(image_path).opens
    /\ imageInfo(image_path).DateTime # NoTag
    /\ strptime(imageInfo(image_path).DateTime).ok

\* filename, extension and base_path of an image, after either branch
imageTarget(image_path, include_year) ==
    LET info == imageInfo(image_path)
        parts == splitOn(splitTail(image_path), ".")
    IN  IF validExif(image_path)
        THEN LET t == strptime(info.DateTime).time
                 year_str == pad4(t.year)
                 year_month_str == pad4(t.year) \o <<"_">> \o pad2(t.month)
             IN  [filename |-> <<"I","M","G","_">> \o pad4(t.year) \o pad2(t.month) \o pad2(t.day)
                                  \o <<"_">> \o pad2(t.hour) \o pad2(t.minute)
                                  \o pad2(t.second),
                  extension |-> lower(info.format),
                  base_path |-> IF include_year
                                THEN join(join(DestRoot, year_str), year_month_str)
                                ELSE join(DestRoot, year_month_str)]
        ELSE [filename |-> parts[1],
              extension |-> parts[2],
              base_path |-> join(DestRoot, <<"N","o","_","e","x","i","f","_","d","a","t","a">>)]

\* filename, extension and base_path of an other file
otherTarget(file) ==
    LET parts == splitOn(splitTail(file), ".")
    IN  [filename |-> parts[1],
         extension |-> parts[2],
         base_path |-> join(join(DestRoot, <<"O","t","h","e","r"," ","F","i","l","e","s">>), parts[2] \o <<"_","F","i","l","e","s">>)]

\* the history record of one shutil.move
logEntry(src, target, dst_path, outcome) ==
    [src |-> src, id |-> fs[src].id, base_path |-> target.base_path,
     filename |-> target.filename, extension |-> target.extension,
     dst |-> dst_path, outcome |-> outcome]

\* main up to the call of extract_exif_...: the files are classified
Classify ==
    /\ UNCHANGED tailVars
    /\ UNCHANGED delVars
    /\ pc = "main"
    /\ imgs' = filter_imgs(all_files)
    /\ others' = filter_others(all_files)
    /\ cursor' = 1
    /\ pc' = "images"
    /\ UNCHANGED <<fs, dirs, call, ret, config, all_files, image_bound,
                   success_list, copy_list, problem_list, success_files,
                   problem_files, fs0, log>>

\* one iteration of the loop over imgs
ProcessImage ==
    /\ UNCHANGED tailVars
    /\ UNCHANGED delVars
    /\ pc = "images"
    /\ cursor <= Len(imgs)
    /\ LET image_path == imgs[cursor]
           bound == image_bound \/ imageInfo(image_path).opens
           parts == splitOn(splitTail(image_path), ".")
           \* image.close() in the except clause with `image` never assigned
           name_error == ~validExif(image_path) /\ ~bound
           \* filename_full.split('.')[1] in the except clause
           index_error == ~validExif(image_path) /\ bound /\ Len(parts) < 2
       IN  /\ image_bound' = bound
           /\ IF name_error \/ index_error
              THEN /\ pc' = "aborted"
                   /\ UNCHANGED <<fs, dirs, cursor, success_list, copy_list,
                                  problem_list, log>>
              ELSE \E target \in {imageTarget(image_path, config.include_year)} :
                   \E dst_path \in {create_dst_path_for_file(fs, dirs,
                                       target.base_path, target.filename,
                                       target.extension)} :
                   \E outcome \in MoveOutcomes :
                         /\ fs' = shutil_move(fs, image_path, dst_path, outcome)
                         /\ dirs' = makedirs(dirs, target.base_path)
                         /\ log' = Append(log, logEntry(image_path, target,
                                                        dst_path, outcome))
                         /\ IF outcome = "moved"
                            THEN /\ success_list' = Append(success_list, dst_path)
                                 /\ copy_list' = IF contains(dst_path, Kopie)
                                                 THEN Append(copy_list, dst_path)
                                                 ELSE copy_list
                                 /\ UNCHANGED problem_list
                            ELSE /\ problem_list' = Append(problem_list, image_path)
                                 /\ UNCHANGED <<success_list, copy_list>>
                         /\ cursor' = cursor + 1
                         /\ UNCHANGED pc
    /\ UNCHANGED <<call, ret, config, all_files, imgs, others, success_files,
                   problem_files, fs0>>

\* the assert after the loop, the return, and main's call of move_other_files
ImagesReturn ==
    /\ UNCHANGED tailVars
    /\ UNCHANGED delVars
    /\ pc = "images"
    /\ cursor > Len(imgs)
    /\ pc' = IF Len(imgs) = Len(success_list) + Len(problem_list)
             THEN "others" ELSE "aborted"
    /\ cursor' = 1
    /\ UNCHANGED <<fs, dirs, call, ret, config, all_files, imgs, others,
                   image_bound, success_list, copy_list, problem_list,
                   success_files, problem_files, fs0, log>>

\* one iteration of the loop over files
MoveOther ==
    /\ UNCHANGED tailVars
    /\ UNCHANGED delVars
    /\ pc = "others"
    /\ cursor <= Len(others)
    /\ LET file == others[cursor]
           parts == splitOn(splitTail(file), ".")
       IN  IF Len(parts) < 2
           THEN \* filename_full.split('.')[1] raises IndexError
                /\ pc' = "aborted"
                /\ UNCHANGED <<fs, dirs, cursor, success_files, problem_files, log>>
           ELSE \E target \in {otherTarget(file)} :
                \E D1 \in {makedirs(dirs, target.base_path)} :
                \E dst_path \in {create_dst_path_for_file(fs, D1, target.base_path,
                                    target.filename, target.extension)} :
                \E outcome \in MoveOutcomes :
                      /\ fs' = shutil_move(fs, file, dst_path, outcome)
                      /\ dirs' = D1
                      /\ log' = Append(log, logEntry(file, target, dst_path, outcome))
                      /\ IF outcome = "moved"
                         THEN /\ success_files' = Append(success_files, file)
                              /\ UNCHANGED problem_files
                         ELSE /\ problem_files' = Append(problem_files, file)
                              /\ UNCHANGED success_files
                      /\ cursor' = cursor + 1
                      /\ UNCHANGED pc
    /\ UNCHANGED <<call, ret, config, all_files, imgs, others, image_bound,
                   success_list, copy_list, problem_list, fs0>>

\* move_other_files returns
OthersReturn ==
    /\ UNCHANGED tailVars
    /\ UNCHANGED delVars
    /\ pc = "others"
    /\ cursor > Len(others)
    /\ pc' = "done"
    /\ UNCHANGED <<fs, dirs, call, ret, config, all_files, imgs, others, cursor,
                   image_bound, success_list, copy_list, problem_list,
                   success_files, problem_files, fs0, log>>

-----------------------------------------------------------------------------
(* Pipeline specification: main on a generated source folder and a         *)
(* destination that may already hold files from an earlier run.            *)

\* the number of directories above a path
depth(p) == Cardinality(occurrences(p, Sep))

\* get_all_files_from_source: the orders in which os.walk(topdown=False) may
\* list up to MaxFiles files of the source: the files of a subdirectory come
\* before those of its parent, and a directory's own files come in any order
Listings ==
    {order \in UNION {[1..n -> 1..NSource] : n \in 0..MaxFiles} :
        /\ \A a, b \in DOMAIN order : a # b => order[a] # order[b]
        /\ \A a, b \in DOMAIN order :
               (a < b) => depth(SourceFiles[order[a]].path)
                              >= depth(SourceFiles[order[b]].path)}

\* the destination directory of the dated images under a configuration
DatedDir(include_year) ==
    IF include_year THEN join(join(DestRoot, <<"2","0","2","1">>), <<"2","0","2","1","_","0","5">>)
    ELSE join(DestRoot, <<"2","0","2","1","_","0","5">>)

\* files an earlier run may have left where the dated images will go (the run
\* starts with none of them, the unsuffixed one or the first copy alone)
PreExisting(include_year) ==
    {ProbePath(DatedDir(include_year), <<"I","M","G","_","2","0","2","1","0","5","0","3","_","1","0","1","5","0","0">>, <<"j","p","e","g">>, n) :
        n \in 0..1}

dirsOf(paths) == UNION {makedirs({}, splitHead(p)) : p \in paths}

InDest(p) == startsAt(p, DestRoot \o Sep, 0)

InitPipe ==
    /\ TailIdle
    /\ config \in [include_year : BOOLEAN]
    /\ \E order \in Listings :
         all_files = [n \in DOMAIN order |-> SourceFiles[order[n]].path]
    /\ \E pre \in (SUBSET PreExisting(config.include_year))
                     \ {PreExisting(config.include_year)} :
         LET src == {all_files[n] : n \in DOMAIN all_files}
         IN  /\ fs = [p \in src \cup pre |->
                        IF p \in pre THEN File(0, 1) ELSE File(sourceId(p), 1)]
             /\ dirs = {SrcRoot, DestRoot} \cup dirsOf(src \cup pre)
    /\ fs0 = fs
    /\ pc = "main"
    /\ imgs = <<>> /\ others = <<>> /\ cursor = 0 /\ image_bound = FALSE
    /\ success_list = <<>> /\ copy_list = <<>> /\ problem_list = <<>>
    /\ success_files = <<>> /\ problem_files = <<>>
    /\ log = <<>>
    /\ CallIdle
    /\ DelIdle

Next ==
    \/ Classify
    \/ ProcessImage
    \/ ImagesReturn
    \/ MoveOther
    \/ OthersReturn

Spec == InitPipe /\ [][Next]_vars

\* the same program on the second source folder and an empty destination
NameListings ==
    {order \in UNION {[1..n -> (NSource + 1)..Len(Catalogue)] : n \in 0..MaxFiles} :
        \A a, b \in DOMAIN order : a # b => order[a] # order[b]}

InitNames ==
    /\ TailIdle
    /\ config \in [include_year : BOOLEAN]
    /\ \E order \in NameListings :
         all_files = [n \in DOMAIN order |-> Catalogue[order[n]].path]
    /\ LET src == {all_files[n] : n \in DOMAIN all_files}
       IN  /\ fs = [p \in src |-> File(sourceId(p), 1)]
           /\ dirs = {SrcRoot, DestRoot}
    /\ fs0 = fs
    /\ pc = "main"
    /\ imgs = <<>> /\ others = <<>> /\ cursor = 0 /\ image_bound = FALSE
    /\ success_list = <<>> /\ copy_list = <<>> /\ problem_list = <<>>
    /\ success_files = <<>> /\ problem_files = <<>>
    /\ log = <<>>
    /\ CallIdle
    /\ DelIdle

SpecNames == InitNames /\ [][Next]_vars

-----------------------------------------------------------------------------
(* Claims about the pipeline *)

\* what a step must do to the destination tree
NoOverwriteStep ==
    /\ \A p \in DOMAIN fs : InDest(p) => (p \in DOMAIN fs' /\ fs'[p] = fs[p])
    /\ Len(log') > Len(log) =>
          LET e == log'[Len(log')]
          IN  e.outcome = "moved" =>
                 /\ ~exists(fs, dirs, e.dst)
                 /\ e.dst \in DOMAIN fs'
                 /\ fs'[e.dst] = fs[e.src]

\* C2: no step of the image or other-file pipeline overwrites or replaces a
\* file of the destination tree: every file present in the destination before
\* a step is present with the same content after it, and a successful move
\* creates its file at a path that did not exist just before the move.
C2_NoOverwrite == [][NoOverwriteStep]_vars

\* a file was moved next to a file an earlier run left, which is still there
C2_Witness ==
    \E n \in 1..Len(log) : \E e \in {log[n]} :
        /\ e.outcome = "moved"
        /\ e.dst = ProbePath(e.base_path, e.filename, e.extension, 1)
        /\ ProbePath(e.base_path, e.filename, e.extension, 0) \in DOMAIN fs0
        /\ fs[ProbePath(e.base_path, e.filename, e.extension, 0)].id = 0
        /\ fs[e.dst].id = e.id

\* the files of the log that resolve to the same directory, stem and extension
sameTarget(e1, e2) ==
    /\ e1.base_path = e2.base_path
    /\ e1.filename = e2.filename
    /\ lower(e1.extension) = lower(e2.extension)

\* position of log[n] among the files with its target, in processing order
rank(n) == Cardinality({m \in 1..n : sameTarget(log[m], log[n])})

\* every file with the target of log[n] processed so far was moved successfully
groupMoved(n) ==
    \A m \in 1..n : sameTarget(log[m], log[n]) => log[m].outcome = "moved"

landedAt(n, k) ==
    /\ log[n].dst = ProbePath(log[n].base_path, log[n].filename,
                              log[n].extension, k)
    /\ log[n].dst \in DOMAIN fs
    /\ fs[log[n].dst].id = log[n].id

\* C3 as claimed: when the unsuffixed name is free before the run, the k-th
\* file moved to that directory, stem and extension lands at stem_Kopie(k-1).ext
\* (the first at stem.ext) and is present there.
C3_Original ==
    \A n \in 1..Len(log) :
        LET e == log[n]
        IN  (/\ groupMoved(n)
             /\ ProbePath(e.base_path, e.filename, e.extension, 0) \notin DOMAIN fs0)
            => landedAt(n, rank(n) - 1)

\* the first r names of the probe sequence of log[n]: those that can divert
\* the r-th file of its target
probeNames(n, r) ==
    {ProbePath(log[n].base_path, log[n].filename, log[n].extension, k) :
        k \in 0..(r - 1)}

\* none of these names exists before the run, and none is the destination of
\* a file with another target
probeNamesFree(n) ==
    \E names \in {probeNames(n, rank(n))} :
        /\ names \cap DOMAIN fs0 = {}
        /\ \A m \in 1..Len(log) :
              log[m].dst \in names => sameTarget(log[m], log[n])

\* C3 (amended): when stem.ext and the suffixed names stem_Kopie(n).ext are
\* free before the run and are taken by no file of another target, and each of
\* the files is moved successfully, the k-th file of the target lands at
\* stem_Kopie(k-1).ext (the first at stem.ext) and is present there from then on.
C3_SequentialCopies ==
    \A n \in 1..Len(log) :
        (groupMoved(n) /\ probeNamesFree(n)) => landedAt(n, rank(n) - 1)

\* three images with the same capture time, the third at _Kopie(2)
C3_Witness ==
    /\ pc = "done"
    /\ \E n \in 1..Len(log) :
          /\ rank(n) = 3
          /\ probeNamesFree(n)
          /\ groupMoved(n)
          /\ landedAt(n, 2)

\* C4: a per-file failure never aborts the batch, and on return every input
\* file is in exactly one of the success list and the problem list.
C4_Isolation ==
    /\ pc # "aborted"
    /\ pc \in {"others", "done"} => Len(imgs) = Len(success_list) + Len(problem_list)
    /\ pc = "done" => Len(others) = Len(success_files) + Len(problem_files)

\* where the content of input file n is found
locations(n) == {p \in DOMAIN fs : fs[p].id = n}

\* the moves of the source file at path p, as positions of the log
movesOf(p, outcome) ==
    {m \in 1..Len(log) : log[m].src = p /\ log[m].outcome = outcome}

\* C5 as claimed: at every point each input file exists at exactly one
\* location: at its resolved destination once moved successfully, unchanged at
\* its source path otherwise.
C5_Original ==
    \A k \in 1..Len(all_files) :
        \E p \in {all_files[k]} : \E at \in {locations(fs0[p].id)} :
            /\ Cardinality(at) = 1
            /\ \A m \in movesOf(p, "moved") : at = {log[m].dst}
            /\ movesOf(p, "moved") = {} => (at = {p} /\ fs[p] = fs0[p])

\* C5 (amended): at every point a successfully moved input file exists at its
\* resolved destination and nowhere else; every other input file still exists
\* unchanged at its source path, and the only other place it can be found is
\* the resolved destination of a move of it that failed after copying; no
\* input file is lost.
C5_NoLoss ==
    \A k \in 1..Len(all_files) :
        \E p \in {all_files[k]} : \E at \in {locations(fs0[p].id)} :
            /\ at # {}
            /\ \A m \in movesOf(p, "moved") : at = {log[m].dst}
            /\ movesOf(p, "moved") = {} =>
                  /\ p \in at
                  /\ fs[p] = fs0[p]
                  /\ at \subseteq {p} \cup {log[m].dst : m \in movesOf(p, "copied")}

\* mid-run: one file moved, one left behind by a failed move, one not yet processed
C5_Witness ==
    /\ pc = "images"
    /\ cursor <= Len(imgs)
    /\ \E m1, m2 \in 1..Len(log) :
          /\ log[m1].outcome = "moved" /\ locations(log[m1].id) = {log[m1].dst}
          /\ log[m2].outcome = "failed" /\ locations(log[m2].id) = {log[m2].src}
    /\ locations(fs0[imgs[cursor]].id) = {imgs[cursor]}

-----------------------------------------------------------------------------
(* Classifier specification: one call of filter_files_with_regex *)

FilterNames ==
    {<<"s","/","a",".","j","p","g">>, <<"s","/","a",".","J","P","G">>, <<"s","/","a",".","j","p","e","g">>, <<"s","/","a",".","J","P","E","G">>, <<"s","/","a",".","P","n","g">>, <<"s","/","a",".","t","i","f","f">>,
     <<"s","/","a",".","b",".","b","m","p">>, <<"s","/","a",".","t","x","t">>, <<"s","/","a">>, <<"s","/",".","j","p","g">>, <<"s","/","a",".","j","p","g",".","t","x","t">>, <<"s","/","a",".","t","i","f","x">>}

InitFilter ==
    /\ TailIdle
    /\ \E n \in 0..MaxList : \E files_list \in [1..n -> FilterNames] :
          call = [files_list |-> files_list]
    /\ pc = "call"
    /\ ret = <<>>
    /\ fs = <<>> /\ dirs = {}
    /\ PipeIdle
    /\ DelIdle

\* the whole function: the loop, the assert and the return
FilterCall ==
    /\ UNCHANGED tailVars
    /\ pc = "call"
    /\ imgs' = filter_imgs(call.files_list)
    /\ others' = filter_others(call.files_list)
    /\ pc' = IF Len(call.files_list) = Len(imgs') + Len(others')
             THEN "returned" ELSE "aborted"
    /\ ret' = <<imgs', others'>>
    /\ UNCHANGED <<fs, dirs, call, config, all_files, cursor, image_bound,
                   success_list, copy_list, problem_list, success_files,
                   problem_files, fs0, log>>
    /\ UNCHANGED delVars

NextFilter == FilterCall

SpecFilter == InitFilter /\ [][NextFilter]_vars

\* the extension set of the claim
ClaimExtensions ==
    {<<"j","p","g">>, <<"j","p","e","g">>, <<"p","n","g">>, <<"t","i","f","f">>, <<"t","i","f">>, <<"b","m","p">>}

\* the substring after the final '.' of the file name, lower-cased, is in the set
claimedImage(file) ==
    LET name == splitTail(file)
        dots == occurrences(name, <<".">>)
    IN  /\ dots # {}
        /\ lower(slice(name, Max(dots) + 1, Len(name))) \in ClaimExtensions

elements(s) == {s[n] : n \in 1..Len(s)}

\* C10: a path is put in the image list if and only if the substring after the
\* final '.' of its file name, compared case-insensitively, is one of jpg, jpeg,
\* png, tiff, tif, bmp; every other path is put in the other list.
C10_ExtensionDecides ==
    pc = "returned" =>
        \A file \in elements(call.files_list) :
            /\ (file \in elements(imgs)) <=> claimedImage(file)
            /\ (file \in elements(others)) <=> ~claimedImage(file)

\* C11: every input position is assigned to exactly one of the two lists: the
\* lists are disjoint, each is the input restricted to its elements in input
\* order, the lengths add up, and the length assertion does not fail.
C11_Partition ==
    /\ pc # "aborted"
    /\ pc = "returned" =>
          /\ elements(imgs) \cap elements(others) = {}
          /\ imgs = SelectSeq(call.files_list, LAMBDA f : f \in elements(imgs))
          /\ others = SelectSeq(call.files_list, LAMBDA f : f \in elements(others))
          /\ Len(imgs) + Len(others) = Len(call.files_list)

C11_Witness ==
    /\ pc = "returned"
    /\ Len(imgs) >= 1
    /\ \E n \in 1..Len(others) : regexDots(splitTail(others[n])) # {}

-----------------------------------------------------------------------------
(* delete_copy_pictures_from_destination *)

\* the bound of the `counter < 10` test
RetryCeiling == 10

\* org_file: file.split("Kopie")[0][:-1] + "." + file.split(".")[-1]
orgFile(file) ==
    LET head == slice(file, 0, Min(occurrences(file, Kopie)))
        parts == splitOn(file, ".")
    IN  slice(head, 0, Len(head) - 1) \o Dot \o parts[Len(parts)]

\* list.remove(x): the list without the first occurrence of x
listRemove(list, x) ==
    LET at == Min({n \in 1..Len(list) : list[n] = x})
    IN  SubSeq(list, 1, at - 1) \o SubSeq(list, at + 1, Len(list))

\* a loop that stops at the ceiling even when files are left
loopContinues_and(files, passes) == Len(files) > 0 /\ passes < RetryCeiling

\* the test of the while loop
loopContinues(files, passes) == Len(files) > 0 \/ passes < RetryCeiling

\* the destination tree in the order get_all_files_from_source lists it
TreeListing ==
    << <<"d","/","N","/","a",".","j","p","g">>, <<"d","/","N","/","a","_","K","o","p","i","e","(","1",")",".","j","p","g">>, <<"d","/","N","/","a","_","K","o","p","i","e","(","2",")",".","j","p","g">>,
       <<"d","/","N","/","b","_","K","o","p","i","e","(","1",")",".","j","p","g">>, <<"d","/","x","/","K","o","p","i","e","/","c",".","j","p","g">>, <<"d","/","x",".","j","p","g">> >>

\* the sizes a file of the generated tree may have
TreeSizes(path) ==
    IF path = <<"d","/","N","/","a",".","j","p","g">> THEN {1, 2}
    ELSE IF path = <<"d","/","N","/","a","_","K","o","p","i","e","(","2",")",".","j","p","g">> THEN {2}
    ELSE {1}

\* get_all_files_from_source(path): the regular files, in listing order
treeFiles(F) == SelectSeq(TreeListing, LAMBDA p : isfile(F, p))

InitDelete ==
    /\ TailIdle
    /\ \E S \in SUBSET {TreeListing[n] : n \in 1..Len(TreeListing)} :
          /\ fs \in {F \in [S -> {File(0, 1), File(0, 2)}] :
                        \A p \in S : F[p].size \in TreeSizes(p)}
          /\ dirs = {DestRoot} \cup dirsOf(S)
    /\ fs0 = fs
    /\ pc = "scan"
    /\ all_files = <<>> /\ quene = <<>> /\ deleted_files = <<>>
    /\ problem_files = <<>> /\ del_files = <<>>
    /\ counter = 0 /\ cursor = 0 /\ removed = {}
    /\ config = [include_year |-> FALSE]
    /\ imgs = <<>> /\ others = <<>> /\ image_bound = FALSE
    /\ success_list = <<>> /\ copy_list = <<>> /\ problem_list = <<>>
    /\ success_files = <<>> /\ log = <<>>
    /\ CallIdle

delConst == <<dirs, call, config, imgs, others, image_bound, success_list,
              copy_list, problem_list, success_files, fs0, log>>

\* the listing of the destination and the collection of the marked files
Scan ==
    /\ UNCHANGED tailVars
    /\ pc = "scan"
    /\ all_files' = treeFiles(fs)
    /\ quene' = SelectSeq(treeFiles(fs),
                          LAMBDA file : contains(file, Kopie) /\ isfile(fs, file))
    /\ cursor' = 1
    /\ pc' = "compare"
    /\ UNCHANGED <<fs, ret, problem_files, deleted_files, del_files, counter, removed>>
    /\ UNCHANGED delConst

\* another process removes a marked file that has not been compared yet
Vanish ==
    /\ UNCHANGED tailVars
    /\ pc = "compare"
    /\ \E n \in cursor..Len(quene) :
          /\ quene[n] \in DOMAIN fs
          /\ fs' = [p \in DOMAIN fs \ {quene[n]} |-> fs[p]]
    /\ UNCHANGED <<pc, ret, all_files, cursor, quene, problem_files, deleted_files,
                   del_files, counter, removed>>
    /\ UNCHANGED delConst

\* one iteration of the loop over quene
Compare ==
    /\ UNCHANGED tailVars
    /\ pc = "compare"
    /\ cursor <= Len(quene)
    /\ LET file == quene[cursor]
           org_file == orgFile(file)
       IN  IF isfile(fs, file)
           THEN IF ~isfile(fs, org_file)
                THEN \* os.path.getsize(org_file) raises FileNotFoundError
                     /\ pc' = "aborted"
                     /\ UNCHANGED <<cursor, deleted_files, problem_files>>
                ELSE /\ IF fs[file].size = fs[org_file].size
                        THEN /\ deleted_files' = Append(deleted_files, file)
                             /\ UNCHANGED problem_files
                        ELSE /\ problem_files' =
                                   Append(problem_files, <<file, "Size does not match">>)
                             /\ UNCHANGED deleted_files
                     /\ cursor' = cursor + 1
                     /\ UNCHANGED pc
           ELSE /\ problem_files' = Append(problem_files, <<file, "No file">>)
                /\ cursor' = cursor + 1
                /\ UNCHANGED <<pc, deleted_files>>
    /\ UNCHANGED <<fs, ret, all_files, quene, del_files, counter, removed>>
    /\ UNCHANGED delConst

\* counter = 0 and del_files = deleted_files.copy()
CompareDone ==
    /\ UNCHANGED tailVars
    /\ pc = "compare"
    /\ cursor > Len(quene)
    /\ counter' = 0
    /\ del_files' = deleted_files
    /\ pc' = "while"
    /\ UNCHANGED <<fs, ret, all_files, cursor, quene, problem_files, deleted_files,
                   removed>>
    /\ UNCHANGED delConst

\* the test of the while loop and, when it holds, counter += 1
WhileTest ==
    /\ UNCHANGED tailVars
    /\ pc = "while"
    /\ IF loopContinues(del_files, counter)
       THEN /\ counter' = counter + 1
            /\ cursor' = 1
            /\ pc' = "for"
       ELSE /\ pc' = "report"
            /\ UNCHANGED <<counter, cursor>>
    /\ UNCHANGED <<fs, ret, all_files, quene, problem_files, deleted_files,
                   del_files, removed>>
    /\ UNCHANGED delConst

\* one iteration of `for file in del_files`, whose iterator is a position in
\* the list that is being shortened: os.remove either removes the file, returns
\* with the file still visible (at most until pass MaxPasses), or raises
DeleteStep ==
    /\ UNCHANGED tailVars
    /\ pc = "for"
    /\ cursor <= Len(del_files)
    /\ LET file == del_files[cursor]
       IN  IF exists(fs, dirs, file)
           THEN \/ /\ fs' = [p \in DOMAIN fs \ {file} |-> fs[p]]
                   /\ removed' = removed \cup {file}
                   /\ cursor' = cursor + 1
                   /\ UNCHANGED <<pc, del_files>>
                \/ /\ counter < MaxPasses
                   /\ cursor' = cursor + 1
                   /\ UNCHANGED <<fs, removed, pc, del_files>>
                \/ /\ pc' = "aborted"
                   /\ UNCHANGED <<fs, removed, cursor, del_files>>
           ELSE /\ del_files' = listRemove(del_files, file)
                /\ cursor' = cursor + 1
                /\ UNCHANGED <<fs, removed, pc>>
    /\ UNCHANGED <<ret, all_files, quene, problem_files, deleted_files, counter>>
    /\ UNCHANGED delConst

\* the for loop is exhausted
ForDone ==
    /\ UNCHANGED tailVars
    /\ pc = "for"
    /\ cursor > Len(del_files)
    /\ pc' = "while"
    /\ UNCHANGED <<fs, ret, all_files, cursor, quene, problem_files, deleted_files,
                   del_files, counter, removed>>
    /\ UNCHANGED delConst

\* the files left in del_files are reported, the assert, the return
Report ==
    /\ UNCHANGED tailVars
    /\ pc = "report"
    /\ problem_files' = problem_files \o
           [n \in 1..Len(del_files) |-> <<del_files[n], "Could not be deleted">>]
    /\ IF Len(quene) = Len(deleted_files) + Len(problem_files')
       THEN /\ pc' = "returned"
            /\ ret' = <<deleted_files, problem_files'>>
       ELSE /\ pc' = "assert_failed"
            /\ UNCHANGED ret
    /\ UNCHANGED <<fs, all_files, cursor, quene, deleted_files, del_files, counter,
                   removed>>
    /\ UNCHANGED delConst

NextDelete ==
    \/ Scan
    \/ Vanish
    \/ Compare
    \/ CompareDone
    \/ WhileTest
    \/ DeleteStep
    \/ ForDone
    \/ Report

SpecDelete == InitDelete /\ [][NextDelete]_vars

-----------------------------------------------------------------------------
(* Claims about duplicate reconciliation *)

nameHasMarker(p) == contains(splitTail(p), Kopie)

\* the presumed original of the claim: same directory, the stem without its
\* _Kopie(n) suffix, same extension
claimOriginal(p) ==
    LET name == splitTail(p)
        at == Max(occurrences(name, <<"_","K","o","p","i","e","(">>))
        dots == occurrences(name, <<".">>)
    IN  splitHead(p) \o <<"/">> \o slice(name, 0, at)
                     \o slice(name, Max(dots), Len(name))

\* C7: only files whose name contains the marker and whose size equals the size
\* of their presumed original are deleted; a marker file of another size than
\* its presumed original is not deleted, is still present after the run and is
\* in the problem list as a size mismatch.
C7_SizeGuard ==
    /\ \A p \in removed :
          /\ nameHasMarker(p)
          /\ claimOriginal(p) \in DOMAIN fs0
          /\ fs0[p].size = fs0[claimOriginal(p)].size
    /\ \A p \in DOMAIN fs0 :
          (/\ nameHasMarker(p)
           /\ claimOriginal(p) \in DOMAIN fs0
           /\ fs0[p].size # fs0[claimOriginal(p)].size)
          => /\ p \notin removed
             /\ (pc = "returned" /\ <<p, "No file">> \notin elements(problem_files))
                   => (p \in DOMAIN fs
                          /\ <<p, "Size does not match">> \in elements(problem_files))

\* C8: the deletion loop makes at most 10 passes, and every marked file still
\* present when it ends is reported in the problem list as a failed deletion.
C8_BoundedRetries ==
    /\ counter <= RetryCeiling
    /\ pc \in {"report", "returned", "assert_failed"} =>
          \A file \in elements(deleted_files) :
              file \in DOMAIN fs => file \in elements(del_files)

\* C9: no per-file failure aborts the reconciliation run, and a marked file
\* that vanished before its comparison is in the problem list with a reason.
C9_FailuresRecorded ==
    /\ pc # "aborted"
    /\ pc = "returned" =>
          \A file \in elements(quene) :
              (file \notin DOMAIN fs /\ file \notin removed)
                 => <<file, "No file">> \in elements(problem_files)

-----------------------------------------------------------------------------
(* delete_empty_folders *)

\* deepest chain of nested directories in a generated tree
MaxDepth == 3

\* largest value of the levels argument
MaxLevels == 3

\* the directories and the files directly inside the directory d
dirnamesOf(D, d) == {c \in D : c # d /\ splitHead(c) = d}
filenamesOf(F, d) == {p \in DOMAIN F : splitHead(p) = d}

\* the directories os.walk(top) visits: top and everything below it
walked(D, top) == {d \in D : d = top \/ startsAt(d, top \o Sep, 0)}

\* what os.walk(top, topdown=False) yields for each directory.  A directory is
\* listed before the walk descends into it and yielded after its
\* subdirectories, so its dirnames are those of the start of the pass.
listing(F, D, top) ==
    [d \in walked(D, top) |->
        [dirnames |-> dirnamesOf(D, d), filenames |-> filenamesOf(F, d)]]

\* a test that forgets to spare the root
removable_anydir(entry, dirpath, directory) ==
    entry.dirnames = {} /\ entry.filenames = {}

\* not dirnames and not filenames and dirpath != directory
removable(entry, dirpath, directory) ==
    entry.dirnames = {} /\ entry.filenames = {} /\ dirpath # directory

\* a loop that runs one pass fewer
inRange_short(i, levels) == i < levels - 1

\* for i in range(0, levels)
inRange(i, levels) == i < levels

\* the whole function without failures: the directories left after the
\* passes i, i + 1, ..., levels - 1
RECURSIVE delete_empty_folders(_, _, _, _, _)
delete_empty_folders(F, D, directory, levels, i) ==
    IF inRange(i, levels)
    THEN LET seen == listing(F, D, directory)
             gone == {d \in DOMAIN seen : removable(seen[d], d, directory)}
         IN  delete_empty_folders(F, D \ gone, directory, levels, i + 1)
    ELSE D

\* the root followed by k nested directories x
RECURSIVE chain(_)
chain(k) == IF k = 0 THEN SrcRoot ELSE join(chain(k - 1), <<"x">>)

PruneDirs == {chain(k) : k \in 1..MaxDepth} \cup {join(SrcRoot, <<"w">>)}

fileOf(d) == join(d, <<"f">>)

InitPrune ==
    /\ \E D \in SUBSET PruneDirs :
          /\ \A d \in D : splitHead(d) \in D \cup {SrcRoot}
          /\ dirs = D \cup {SrcRoot}
    /\ \E S \in SUBSET dirs : fs = [p \in {fileOf(d) : d \in S} |-> File(0, 1)]
    /\ call \in [directory : {SrcRoot}, levels : 0..MaxLevels]
    /\ pc = "range"
    /\ pass = 0 /\ walk = {} /\ scan = <<>>
    /\ fs0 = fs /\ dirs0 = dirs
    /\ run = 0 /\ presumed = <<>>
    /\ ret = <<>>
    /\ config = [include_year |-> FALSE]
    /\ all_files = <<>> /\ imgs = <<>> /\ others = <<>>
    /\ cursor = 0 /\ image_bound = FALSE
    /\ success_list = <<>> /\ copy_list = <<>> /\ problem_list = <<>>
    /\ success_files = <<>> /\ problem_files = <<>>
    /\ log = <<>>
    /\ DelIdle

pruneConst == <<fs, call, ret, fs0, dirs0, run, presumed>>

\* the head of the outer loop: the next pass starts with a new os.walk, or the
\* function returns
PassStart ==
    /\ pc = "range"
    /\ IF inRange(pass, call.levels)
       THEN /\ scan' = listing(fs, dirs, call.directory)
            /\ walk' = DOMAIN scan'
            /\ pc' = "walk"
       ELSE /\ pc' = "returned"
            /\ UNCHANGED <<scan, walk>>
    /\ UNCHANGED <<dirs, pass>>
    /\ UNCHANGED pruneConst
    /\ UNCHANGED pipeVars
    /\ UNCHANGED delVars

\* one iteration of the inner loop: os.walk yields a directory all of whose
\* subdirectories it has yielded; os.rmdir removes it or raises
WalkStep ==
    /\ pc = "walk"
    /\ \E dirpath \in walk :
          /\ scan[dirpath].dirnames \cap walk = {}
          /\ walk' = walk \ {dirpath}
          /\ IF removable(scan[dirpath], dirpath, call.directory)
             THEN \/ /\ dirs' = dirs \ {dirpath}
                     /\ UNCHANGED pc
                  \/ /\ pc' = "aborted"
                     /\ UNCHANGED dirs
             ELSE UNCHANGED <<dirs, pc>>
    /\ UNCHANGED <<pass, scan>>
    /\ UNCHANGED pruneConst
    /\ UNCHANGED pipeVars
    /\ UNCHANGED delVars

\* os.walk is exhausted: the pass is over
PassDone ==
    /\ pc = "walk"
    /\ walk = {}
    /\ pass' = pass + 1
    /\ pc' = "range"
    /\ UNCHANGED <<dirs, walk, scan>>
    /\ UNCHANGED pruneConst
    /\ UNCHANGED pipeVars
    /\ UNCHANGED delVars

NextPrune ==
    \/ PassStart
    \/ WalkStep
    \/ PassDone

SpecPrune == InitPrune /\ [][NextPrune]_vars

\* what a step may do to the tree
PruneStepSafe ==
    /\ fs' = fs
    /\ call.directory \in dirs'
    /\ dirs' \subseteq dirs
    /\ \A d \in dirs \ dirs' :
          /\ d # call.directory
          /\ filenamesOf(fs, d) = {}
          /\ dirnamesOf(dirs, d) = {}

\* C13: delete_empty_folders removes only directories that, when they are
\* removed, hold no file and no subdirectory and are not the root; the root
\* stays, no file is removed, and no directory holding a file is removed.
C13_OnlyEmptyNonRoot == [][PruneStepSafe]_vars

\* the function returned after removing a directory, and the root is empty
C13_Witness ==
    /\ pc = "returned"
    /\ dirs = {SrcRoot}
    /\ dirs0 # dirs
    /\ DOMAIN fs = {}

\* a directory whose subtree holds no file, and the length of the longest
\* chain of nested directories that starts with it
fileless(F, d) == \A p \in DOMAIN F : ~startsAt(p, d \o Sep, 0)
height(D, d) == 1 + Max({depth(c) : c \in walked(D, d)}) - depth(d)

\* C18: when the function returns, a directory below the root whose subtree
\* held no file is gone if the chain of nested directories it starts is at
\* most levels long, each pass removing one nesting level; in particular all of
\* them are gone when no such chain is longer than levels.
C18_OneLevelPerPass ==
    /\ pc = "returned" =>
          \A d \in dirs0 \ {call.directory} :
              fileless(fs0, d) =>
                  ((d \notin dirs) <=> (height(dirs0, d) <= call.levels))
    /\ pc \in {"walk", "range"} =>
          \A d \in dirs0 \ {call.directory} :
              (fileless(fs0, d) /\ height(dirs0, d) > pass + 1) => d \in dirs

\* a chain of three nested empty directories was removed in three passes
C18_Witness ==
    /\ pc = "returned"
    /\ call.levels >= MaxDepth
    /\ chain(MaxDepth) \in dirs0
    /\ fileless(fs0, chain(1))
    /\ chain(1) \notin dirs

-----------------------------------------------------------------------------
(* Resolver and reconciler together: a path produced by                    *)
(* create_dst_path_for_file is handed to the derivation of org_file.       *)

RoundBases == {NoExifDir, join(DestRoot, Kopie), join(DestRoot, <<"2","0","2","1",".","0","5">>)}
RoundStems == {<<"a">>, <<"a",".","b">>, Kopie \o <<"_","a">>}

\* the destination holds stem.ext and the copies below index n
InitRound ==
    /\ TailIdle
    /\ call \in [base_path : RoundBases, filename : RoundStems,
                 extension : ResolveExts]
    /\ \E n \in 1..MaxIdx :
          fs = [p \in {ProbePath(call.base_path, call.filename, call.extension, k) :
                          k \in 0..(n - 1)} |-> File(0, 1)]
    /\ dirs = makedirs({}, call.base_path)
    /\ pc = "call"
    /\ ret = <<>>
    /\ PipeIdle
    /\ DelIdle

\* the first statement of the loop over quene, for the path just resolved
DeriveOriginal ==
    /\ pc = "returned"
    /\ contains(ret, Kopie)
    /\ presumed' = orgFile(ret)
    /\ pc' = "derived"
    /\ UNCHANGED <<fs, dirs, call, ret, run, dirs0, pass, walk, scan>>
    /\ UNCHANGED pipeVars
    /\ UNCHANGED delVars

NextRound ==
    \/ ResolveCall
    \/ DeriveOriginal

SpecRound == InitRound /\ [][NextRound]_vars

\* C16: the org_file derived from the path base/stem_Kopie(n).ext that the
\* resolver returned is base/stem.ext, the name the resolver gives when nothing
\* is in the way, also when the directory or the stem contains Kopie or a '.'.
C16_RoundTrip ==
    pc = "derived" =>
        presumed = ProbePath(call.base_path, call.filename, call.extension, 0)

-----------------------------------------------------------------------------
(* Claims about the names and folders the pipeline chooses *)

\* whether a capture date can be read from the image: it opens, carries the
\* DateTime tag and the tag's text is a date
dateAvailable(image_path) == validExif(image_path)

\* the file name without what follows its last '.'
originalStem(path) ==
    LET name == splitTail(path)
        dots == occurrences(name, Dot)
    IN  IF dots = {} THEN name ELSE slice(name, 0, Max(dots))

\* folder and stem of an image as the layout rule gives them, read off the
\* characters of the DateTime text YYYY:MM:DD HH:MM:SS
layoutDir(image_path, include_year) ==
    LET s == imageInfo(image_path).DateTime
        year_month == slice(s, 0, 4) \o <<"_">> \o slice(s, 5, 7)
    IN  IF ~dateAvailable(image_path)
        THEN DestRoot \o Sep \o <<"N","o","_","e","x","i","f","_","d","a","t","a">>
        ELSE IF include_year
        THEN DestRoot \o Sep \o slice(s, 0, 4) \o Sep \o year_month
        ELSE DestRoot \o Sep \o year_month

layoutStem(image_path) ==
    LET s == imageInfo(image_path).DateTime
    IN  IF ~dateAvailable(image_path)
        THEN originalStem(image_path)
        ELSE <<"I","M","G","_">> \o slice(s, 0, 4) \o slice(s, 5, 7) \o slice(s, 8, 10)
                 \o <<"_">> \o slice(s, 11, 13) \o slice(s, 14, 16) \o slice(s, 17, 19)

\* C14: every image processed goes to destination/{year}/{year_month} (dated,
\* include_year), destination/{year_month} (dated, no include_year) or
\* destination/No_exif_data (no date), under the stem IMG_YYYYMMDD_HHMMSS when
\* dated and under its original stem otherwise, whatever was processed before.
C14_Layout ==
    \A n \in 1..Len(log) :
        log[n].src \in elements(imgs) =>
            /\ log[n].base_path = layoutDir(log[n].src, config.include_year)
            /\ log[n].filename = layoutStem(log[n].src)

\* C15: every other file is moved under the stem before the first '.' of its
\* name and the extension after that first '.', to
\* destination/Other Files/{extension}_Files/{stem}.{extension}, whether its
\* name holds no, one or several dots.
C15_FirstDotSplit ==
    /\ pc # "aborted"
    /\ \A n \in 1..Len(log) :
          log[n].src \in elements(others) =>
              LET name == splitTail(log[n].src)
                  dots == occurrences(name, Dot)
                  stem == IF dots = {} THEN name ELSE slice(name, 0, Min(dots))
                  ext == IF dots = {} THEN <<>>
                         ELSE slice(name, Min(dots) + 1, Len(name))
                  folder == DestRoot \o Sep \o <<"O","t","h","e","r"," ","F","i","l","e","s">>
                                \o Sep \o ext \o <<"_","F","i","l","e","s">>
              IN  /\ log[n].filename = stem
                  /\ log[n].extension = ext
                  /\ log[n].base_path = folder
                  /\ log[n].dst = folder \o Sep \o stem \o Dot \o ext

\* C17: once extract_exif_from_image_and_move_to_dest_folder has returned, the
\* copy list holds exactly the destinations of the images that were moved and
\* whose resolved name carries a suffix, i.e. is not the unsuffixed name.
C17_CopyListIsSuffixed ==
    pc \in {"others", "done"} =>
        elements(copy_list) =
            {log[n].dst : n \in {m \in 1..Len(log) :
                /\ log[m].src \in elements(imgs)
                /\ log[m].outcome = "moved"
                /\ log[m].dst # ProbePath(log[m].base_path, log[m].filename,
                                          log[m].extension, 0)}}

-----------------------------------------------------------------------------
(* main, run twice: the moves, then the pruning of the source and the       *)
(* reconciliation of the destination as the configuration asks, and a       *)
(* second start of the program on what the first run left.                  *)

\* most files the source folder holds when the program is run twice
MaxTwice == 2

\* the default of the levels parameter, which main does not override
DefaultLevels == 10

InSrc(p) == startsAt(p, SrcRoot \o Sep, 0)

\* the files of the source folder used here: a.jpg and x/a.jpg, taken in the
\* same second, and n.txt
TwiceFiles == {SourceFiles[1].path, SourceFiles[3].path, SourceFiles[6].path}

\* get_all_files_from_source(source_path): the listings os.walk may give of
\* the files that are in the source folder, those of a subfolder first
sourceListings(F) ==
    LET left == {p \in DOMAIN F : InSrc(p)}
    IN  {o \in [1..Cardinality(left) -> left] :
            /\ \A a, b \in DOMAIN o : a # b => o[a] # o[b]
            /\ \A a, b \in DOMAIN o : (a < b) => depth(o[a]) >= depth(o[b])}

\* get_all_files_from_source(destination_path): the dated images, then n.txt
\* and its copies
TwiceListing ==
    [k \in 1..(2 * MaxTwice + 2) |->
        ProbePath(DatedDir(FALSE), <<"I","M","G","_","2","0","2","1","0","5","0","3","_","1","0","1","5","0","0">>, <<"j","p","e","g">>, k - 1)]
    \o [k \in 1..(MaxTwice + 1) |->
        ProbePath(otherTarget(SourceFiles[6].path).base_path, <<"n">>, <<"t","x","t">>, k - 1)]

\* a reconciliation that marks only the first equal-sized copy it finds
marked_first(F, candidates) ==
    LET same == SelectSeq(candidates, LAMBDA file : F[file].size = F[orgFile(file)].size)
    IN  IF same = <<>> THEN <<>> ELSE <<same[1]>>

\* deleted_files after the loop over quene
marked(F, candidates) ==
    SelectSeq(candidates, LAMBDA file : F[file].size = F[orgFile(file)].size)

\* delete_copy_pictures_from_destination up to the deletion loop: the
\* candidates, whether a getsize(org_file) raises, and the two lists
delete_copy_pictures(F) ==
    LET candidates == SelectSeq(TwiceListing,
                          LAMBDA file : contains(file, Kopie) /\ isfile(F, file))
        raises == \E n \in 1..Len(candidates) : ~isfile(F, orgFile(candidates[n]))
        mismatch == SelectSeq(candidates,
                          LAMBDA file : F[file].size # F[orgFile(file)].size)
    IN  IF raises THEN [raises |-> TRUE]
        ELSE [raises |-> FALSE,
              deleted_files |-> marked(F, candidates),
              problem_files |-> [n \in 1..Len(mismatch) |->
                                    <<mismatch[n], "Size does not match">>]]

InitTwice ==
    /\ config \in [include_year : {FALSE}, delete_empty_source : BOOLEAN,
                   delete_copy_pictures : BOOLEAN]
    /\ \E src \in SUBSET TwiceFiles :
         /\ Cardinality(src) <= MaxTwice
         /\ \E pre \in {{}, {TwiceListing[1]}} :
            \E sz \in [src -> {1, 2}] :
              /\ \A p \in src : p # SourceFiles[3].path => sz[p] = 1
              /\ fs = [p \in src \cup pre |->
                         IF p \in pre THEN File(0, 1) ELSE File(sourceId(p), sz[p])]
              /\ dirs = {SrcRoot, DestRoot} \cup dirsOf(src \cup pre)
    /\ all_files \in sourceListings(fs)
    /\ fs0 = fs /\ dirs0 = dirs
    /\ run = 1
    /\ pc = "main"
    /\ imgs = <<>> /\ others = <<>> /\ cursor = 0 /\ image_bound = FALSE
    /\ success_list = <<>> /\ copy_list = <<>> /\ problem_list = <<>>
    /\ success_files = <<>> /\ problem_files = <<>>
    /\ log = <<>>
    /\ pass = 0 /\ walk = {} /\ scan = {} /\ presumed = <<>>
    /\ CallIdle
    /\ DelIdle

\* main after move_other_files: delete_empty_folders(source_path) when the
\* configuration asks for it; an os.rmdir that raises ends the run with some
\* of the empty directories removed
PruneSource ==
    /\ pc = "done"
    /\ IF config.delete_empty_source
       THEN \E left \in {delete_empty_folders(fs, dirs, SrcRoot, DefaultLevels, 0)} :
               \/ /\ dirs' = left
                  /\ pc' = "pruned"
               \/ /\ left # dirs
                  /\ dirs' \in {D \in SUBSET dirs : left \subseteq D /\ D # left}
                  /\ pc' = "aborted"
       ELSE /\ pc' = "pruned"
            /\ UNCHANGED dirs
    /\ UNCHANGED <<fs, call, ret, run, dirs0, pass, walk, scan, presumed>>
    /\ UNCHANGED pipeVars
    /\ UNCHANGED delVars

\* main to its end: delete_copy_pictures_from_destination when the
\* configuration asks for it.  The function raises when an original is
\* missing; its deletion loop ends only when every marked file is gone, and
\* an os.remove that raises ends the run with the files before it removed.
Reconcile ==
    /\ pc = "pruned"
    /\ IF config.delete_copy_pictures
       THEN \E r \in {delete_copy_pictures(fs)} :
               IF r.raises
               THEN /\ pc' = "aborted"
                    /\ UNCHANGED <<fs, ret>>
               ELSE \/ /\ fs' = [p \in DOMAIN fs \ elements(r.deleted_files) |-> fs[p]]
                       /\ ret' = [deleted_pictures |-> r.deleted_files,
                                  problem_pictures |-> r.problem_files]
                       /\ pc' = "finished"
                    \/ \E k \in 0..(Len(r.deleted_files) - 1) :
                          /\ fs' = [p \in DOMAIN fs \
                                       elements(SubSeq(r.deleted_files, 1, k)) |-> fs[p]]
                          /\ pc' = "aborted"
                          /\ UNCHANGED ret
       ELSE /\ ret' = [deleted_pictures |-> <<>>, problem_pictures |-> <<>>]
            /\ pc' = "finished"
            /\ UNCHANGED fs
    /\ UNCHANGED <<dirs, call, run, dirs0, pass, walk, scan, presumed>>
    /\ UNCHANGED pipeVars
    /\ UNCHANGED delVars

\* the program is started again with the same configuration
Rerun ==
    /\ pc = "finished"
    /\ run = 1
    /\ run' = 2
    /\ all_files' \in sourceListings(fs)
    /\ fs0' = fs /\ dirs0' = dirs
    /\ imgs' = <<>> /\ others' = <<>> /\ cursor' = 0 /\ image_bound' = FALSE
    /\ success_list' = <<>> /\ copy_list' = <<>> /\ problem_list' = <<>>
    /\ success_files' = <<>> /\ problem_files' = <<>>
    /\ log' = <<>>
    /\ ret' = <<>>
    /\ pc' = "main"
    /\ UNCHANGED <<fs, dirs, call, config, pass, walk, scan, presumed>>
    /\ UNCHANGED delVars

NextTwice ==
    \/ Classify
    \/ ProcessImage
    \/ ImagesReturn
    \/ MoveOther
    \/ OthersReturn
    \/ PruneSource
    \/ Reconcile
    \/ Rerun

SpecTwice == InitTwice /\ [][NextTwice]_vars

\* what the second run did: nothing moved, nothing reported, trees as before
noMoves ==
    /\ log = <<>>
    /\ problem_list = <<>> /\ problem_files = <<>>
sameTrees == fs = fs0 /\ dirs = dirs0

====
